---------------------------- MODULE Spec2Model ----------------------------
(***************************************************************************)
(* gapless.js: the per-track backend-switching state machine               *)
(* (src/src/trackMachine.ts) and the queue state machine that drives it    *)
(* (queue machine and Gapless facade in src/src/gaplessStateMachine.ts).   *)
(*                                                                         *)
(* Both machines are XState actors.  An actor owns a mailbox: an event     *)
(* sent to an idle actor is processed at once, inside the sender's call;   *)
(* an event sent to an actor that is processing is appended to its         *)
(* mailbox and handled when the current event is finished.  One command    *)
(* of the facade, or one browser event, is therefore one atomic step that  *)
(* runs until every mailbox is empty again.                                *)
(*                                                                         *)
(* Times are whole seconds, volumes are multiples of 1/VolumeScale.        *)
(***************************************************************************)
EXTENDS Integers, Sequences, FiniteSets, TLC

\* ---------------------------------------------------------------- bounds
MaxActors == 3          \* track actors ever spawned (initial + added)
MaxTracks == 2          \* longest initial track list of the command runs
TrackDuration == 10     \* length of every track's media, in seconds
VolumeScale == 2        \* the integer that stands for volume 1.0
MaxLoops == 1           \* progress loops counted per track (saturating)
MaxCalls == 2           \* onEnded invocations / entries of `ended` counted

\* ------------------------------------------------------ program constants
PreviousThreshold == 8

Actors == 1..MaxActors
TickStep == TrackDuration \div 2   \* seconds between two observations
\* the context clock stops when every track could have been observed to its end
MaxClock == MaxActors * TickStep * ((TrackDuration + TickStep - 1) \div TickStep)
PreloadThreshold == 25             \* seconds before the end (onProgress)
SeekEnd == TrackDuration + 2       \* a seek target beyond the end
SeekTimes == {-1, PreviousThreshold + 1, SeekEnd}
Volumes == -1..(VolumeScale + 1)
GotoIndexes == -1..(MaxActors - 1)

Min(a, b) == IF a < b THEN a ELSE b
Max(a, b) == IF a > b THEN a ELSE b

Ev(t, x) == [type |-> t, arg |-> x]

VARIABLES
    value,             \* queue machine state: "paused" | "playing" | "ended"
    currentTrackIdx,   \* queue context, 0-based as in the source
    volume,            \* queue context
    trackActors,       \* queue context: sequence of actor ids
    webAudioIsDisabled,\* queue context (option given at construction)
    track,             \* actor id -> context and state of that track actor
    spawned,           \* number of track actors spawned so far
    clock,             \* audioContext.currentTime
    onEndedCalls,      \* invocations of the user's onEnded callback
    endedEntries,      \* times the queue machine entered `ended`
    playRefused        \* the browser rejects audio.play() (autoplay policy)

vars == <<value, currentTrackIdx, volume, trackActors, webAudioIsDisabled,
          track, spawned, clock, onEndedCalls, endedEntries, playRefused>>

\* ------------------------------------------------------------ track actor
\* Context of a freshly spawned track actor (machine `context` factory);
\* `wired` tells whether onTrackLoaded / onTrackEnded were passed as input.
TrackContext(idx, vol, disabled, wired) ==
    [idx |-> idx,
     volume |-> IF vol = 0 THEN VolumeScale ELSE vol,
     webAudioIsDisabled |-> disabled,
     wired |-> wired,
     playback |-> "paused",
     audioSource |-> "html",
     currentTime |-> 0,
     duration |-> 0,
     audio |-> FALSE, audioPaused |-> TRUE, audioTime |-> 0,
     audioVolume |-> 0,
     audioBuffer |-> FALSE,
     bufferSourceNode |-> "null",
     orphanSources |-> 0,
     gainNode |-> FALSE, gain |-> 0,
     webAudioStartedPlayingAt |-> 0,
     progressAnimationFrame |-> "null",
     staleLoops |-> 0,
     fetching |-> 0]

\* new Audio(): paused, at position 0, volume from context.  The element's
\* `preload` hint is written but never read by the machines: not modelled.
NewAudio(t) ==
    [t EXCEPT !.audio = TRUE, !.audioPaused = TRUE, !.audioTime = 0,
              !.audioVolume = t.volume]

\* audio.pause(); audio.src = ''; audio = null
DropAudio(t) ==
    [t EXCEPT !.audio = FALSE, !.audioPaused = TRUE, !.audioTime = 0,
              !.audioVolume = 0]

\* audioContext.createGain(); gainNode.gain.value = context.volume
NewGain(t) == [t EXCEPT !.gainNode = TRUE, !.gain = t.volume]

\* context.bufferSourceNode = null.  The timing anchor of the dropped source
\* is forgotten with it: the anchor is read only while a source is referenced
\* and createAndStartBufferSource writes it before it sets the reference.
NoSource(t) ==
    [t EXCEPT !.bufferSourceNode = "null", !.webAudioStartedPlayingAt = 0]

\* cancelAnimationFrame(context.progressAnimationFrame): only a frame that
\* has not fired yet is cancelled
CancelFrame(t) == [t EXCEPT !.progressAnimationFrame = "null"]

createAndStartBufferSource(t, startTime, now) ==
    IF ~t.audioBuffer THEN t
    ELSE LET g == IF t.gainNode THEN t ELSE NewGain(t)
             position == Max(0, startTime)
         IN  [g EXCEPT !.bufferSourceNode = "started",
                       !.orphanSources =
                           IF t.bufferSourceNode = "started" THEN @ + 1 ELSE @,
                       !.webAudioStartedPlayingAt = now - position]

createAudioElementIfNeeded(t) ==
    LET a == IF ~t.audio THEN NewAudio(t) ELSE t
    IN  IF ~t.gainNode THEN [a EXCEPT !.gainNode = TRUE, !.gain = t.volume]
        ELSE a

destroyAudioElement(t) ==
    CancelFrame(NoSource(DropAudio(t)))

\* fault variant: resumes from the start of the buffer
resumeWebAudioFromStart(t, now) ==
    createAndStartBufferSource(t, 0, now)

resumeWebAudio(t, now) ==
    createAndStartBufferSource(t, Max(0, t.currentTime), now)

pausePlayback(t, now) ==
    IF t.bufferSourceNode # "null"
    THEN NoSource([t EXCEPT
             !.currentTime = Max(0, now - t.webAudioStartedPlayingAt)])
    ELSE IF t.audio THEN [t EXCEPT !.audioPaused = TRUE]
    ELSE t

startProgressTracking(t) == [t EXCEPT !.progressAnimationFrame = "pending"]

stopProgressTracking(t) == CancelFrame(t)

updateProgress(t, now) ==
    [t EXCEPT
       !.currentTime =
           IF t.bufferSourceNode # "null"
           THEN Max(0, now - t.webAudioStartedPlayingAt)
           ELSE IF t.audio THEN t.audioTime
           ELSE IF t.audioBuffer THEN t.currentTime
           ELSE 0,
       !.duration =
           IF t.audioBuffer THEN TrackDuration
           ELSE IF t.audio THEN TrackDuration
           ELSE 0]

\* fault variant: the playing source is not stopped and cleared before the
\* new one is created
seekWebAudioKeepingSource(t, evTime, now) ==
    LET time == Max(0, evTime) IN
    IF ~t.audioBuffer THEN t
    ELSE LET g == IF t.gainNode THEN t ELSE NewGain(t)
             wasPlaying == t.bufferSourceNode # "null"
             s == [g EXCEPT !.currentTime = time]
         IN  IF wasPlaying THEN createAndStartBufferSource(s, time, now)
             ELSE s

seekWebAudio(t, evTime, now) ==
    LET time == Max(0, evTime) IN
    IF ~t.audioBuffer THEN t
    ELSE LET g == IF t.gainNode THEN t ELSE NewGain(t)
             wasPlaying == t.bufferSourceNode # "null"
             s == [NoSource(g) EXCEPT !.currentTime = time]
         IN  IF wasPlaying THEN createAndStartBufferSource(s, time, now)
             ELSE s

seekHTML5(t, evTime) ==
    LET time == Max(0, evTime) IN
    IF t.audio
    THEN [t EXCEPT !.audioTime = Min(time, TrackDuration),
                   !.currentTime = time]
    ELSE t

\* fault variant: the gain node is not updated
setVolumeAudioOnly(t, v) ==
    LET vol == Max(0, Min(VolumeScale, v)) IN
    [t EXCEPT !.volume = vol,
              !.audioVolume = IF t.audio THEN vol ELSE @]

setVolume(t, v) ==
    LET vol == Max(0, Min(VolumeScale, v)) IN
    [t EXCEPT !.volume = vol,
              !.audioVolume = IF t.audio THEN vol ELSE @,
              !.gain = IF t.gainNode THEN vol ELSE @]

setupWebAudio(t, now) ==
    IF ~t.audioBuffer \/ ~t.gainNode THEN t
    ELSE LET cur == IF t.audio /\ t.audioTime # 0 THEN t.audioTime
                    ELSE t.currentTime
             wasPlaying == t.audio /\ ~t.audioPaused
             s == [t EXCEPT !.currentTime = cur]
             b == IF wasPlaying THEN createAndStartBufferSource(s, cur, now)
                  ELSE s
         IN  DropAudio(b)

\* stop() and disconnect() on the referenced node, its onended handler
\* removed first; the reference itself is kept
cleanupWebAudio(t) ==
    IF t.bufferSourceNode # "null" THEN [t EXCEPT !.bufferSourceNode = "stopped"]
    ELSE t

\* fault variant: the guard does not look for a decoded buffer
canUseWebAudioBufferIgnored(t) == ~t.webAudioIsDisabled

\* fault variant: the guard does not read webAudioIsDisabled
canUseWebAudioFlagIgnored(t) == ~t.audioBuffer

\* guards
canUseWebAudio(t) == ~t.webAudioIsDisabled /\ ~t.audioBuffer
hasWebAudioBuffer(t) == t.audioBuffer
isUsingWebAudio(t) == t.audioBuffer /\ ~t.webAudioIsDisabled

\* ------------------------------------------------- actors and mailboxes
\* The interpreter works on one record S holding both machines, the
\* mailboxes and the flags that tell which actor is processing an event.
Put(S, a, t) == [S EXCEPT !.track[a] = t]

Len0(S) == Len(S.trackActors)

\* context.trackActors[i]; 0 stands for `undefined`
ActorAt(S, i) ==
    IF i >= 0 /\ i < Len0(S) THEN S.trackActors[i + 1] ELSE 0

Count(n) == Min(n + 1, MaxCalls)

RECURSIVE TSend(_, _, _), TDrain(_, _), TStep(_, _, _)
RECURSIVE QSend(_, _), QDrain(_), QStep(_, _)
RECURSIVE SendAll(_, _, _)

\* actor.send(ev) on a track actor: Mailbox.enqueue and flush
TSend(S, a, ev) ==
    IF a = 0 THEN S
    ELSE IF S.tbusy[a] THEN [S EXCEPT !.tbox[a] = Append(@, ev)]
    ELSE TDrain([S EXCEPT !.tbusy[a] = TRUE, !.tbox[a] = <<ev>>], a)

TDrain(S, a) ==
    IF S.tbox[a] = <<>> THEN [S EXCEPT !.tbusy[a] = FALSE]
    ELSE TDrain(TStep([S EXCEPT !.tbox[a] = Tail(@)], a, Head(S.tbox[a])), a)

\* self.send(ev) / queueActor.send(ev) on the queue actor
QSend(S, ev) ==
    IF S.qbusy THEN [S EXCEPT !.qbox = Append(@, ev)]
    ELSE QDrain([S EXCEPT !.qbusy = TRUE, !.qbox = <<ev>>])

QDrain(S) ==
    IF S.qbox = <<>> THEN [S EXCEPT !.qbusy = FALSE]
    ELSE QDrain(QStep([S EXCEPT !.qbox = Tail(@)], Head(S.qbox)))

\* context.trackActors.forEach(actor => actor.send(ev)), from position i on
SendAll(S, i, ev) ==
    IF i >= Len0(S) THEN S
    ELSE SendAll(TSend(S, ActorAt(S, i), ev), i + 1, ev)

\* ------------------------------------------- track machine: actions that
\* send events or call back into the queue
startPlayback(S, a) ==
    LET t == S.track[a] IN
    IF t.audioBuffer /\ ~t.webAudioIsDisabled
    THEN TSend(S, a, Ev("SWITCH_TO_WEBAUDIO", 0))
    ELSE IF t.audio
    THEN LET played == IF S.playRefused THEN t
                       ELSE [t EXCEPT
                              !.audioPaused = FALSE,
                              !.audioTime = IF @ >= TrackDuration THEN 0
                                            ELSE @]
             S1 == Put(S, a, played)
         IN  IF ~t.webAudioIsDisabled
             THEN TSend(S1, a, Ev("LOAD_WEBAUDIO", 0))
             ELSE S1
    ELSE S

preload(S, a) ==
    LET t == S.track[a]
    IN  IF ~t.audioBuffer /\ ~t.webAudioIsDisabled
        THEN TSend(S, a, Ev("LOAD_WEBAUDIO", 0))
        ELSE S

\* fetch(trackUrl) -> arrayBuffer -> decodeAudioData, completing later
startLoadingWebAudio(t) == [t EXCEPT !.fetching = @ + 1]

storeWebAudioBuffer(S, a) ==
    LET S1 == IF S.track[a].wired
              THEN QSend(S, Ev("TRACK_LOADED", S.track[a].idx))
              ELSE S
    IN  Put(S1, a, [S1.track[a] EXCEPT !.audioBuffer = TRUE])

handleEnded(S, a) ==
    LET t == S.track[a]
        S1 == Put(S, a, NoSource(CancelFrame(t)))
        S2 == IF t.wired THEN QSend(S1, Ev("TRACK_ENDED", a)) ELSE S1
    IN  [S2 EXCEPT !.onEndedCalls = Count(@)]

\* builds the GaplessTrackInfo and hands it to onProgress; no state changes
checkPreloadNext(S, a) == S

\* -------------------------------------------- track machine: transitions
TStep(S, a, ev) ==
    LET t == S.track[a]
        now == S.clock
        e == ev.type
    IN
    CASE e = "ACTIVATE" ->
           IF t.playback = "paused"
           THEN Put(S, a, createAudioElementIfNeeded(t))
           ELSE S
      [] e = "DEACTIVATE" ->
           LET src == IF t.audioSource = "webaudio"
                      THEN [cleanupWebAudio(t) EXCEPT !.audioSource = "html"]
                      ELSE t
           IN  IF t.playback = "paused"
               THEN Put(S, a, destroyAudioElement(src))
               ELSE Put(S, a,
                      [stopProgressTracking(
                           destroyAudioElement(pausePlayback(src, now)))
                         EXCEPT !.playback = "paused"])
      [] e = "PLAY" ->
           IF t.playback # "paused" THEN S
           ELSE IF isUsingWebAudio(t)
           THEN Put(S, a, [startProgressTracking(resumeWebAudio(t, now))
                             EXCEPT !.playback = "playing"])
           ELSE LET S1 == startPlayback(
                              Put(S, a, createAudioElementIfNeeded(t)), a)
                IN  Put(S1, a, [startProgressTracking(S1.track[a])
                                  EXCEPT !.playback = "playing"])
      [] e = "PAUSE" ->
           IF t.playback # "playing" THEN S
           ELSE Put(S, a, [stopProgressTracking(pausePlayback(t, now))
                             EXCEPT !.playback = "paused"])
      [] e = "ENDED" ->
           IF t.playback # "playing" THEN S
           ELSE LET S1 == handleEnded(S, a)
                IN  Put(S1, a, [stopProgressTracking(S1.track[a])
                                  EXCEPT !.playback = "paused"])
      [] e = "SEEK" ->
           IF isUsingWebAudio(t) THEN Put(S, a, seekWebAudio(t, ev.arg, now))
           ELSE Put(S, a, seekHTML5(t, ev.arg))
      [] e = "PROGRESS" ->
           IF t.playback # "playing" THEN S
           ELSE checkPreloadNext(Put(S, a, updateProgress(t, now)), a)
      [] e = "LOAD_WEBAUDIO" ->
           IF t.audioSource = "html" /\ canUseWebAudio(t)
           THEN Put(S, a, startLoadingWebAudio(
                              [t EXCEPT !.audioSource = "loadingWebAudio"]))
           ELSE S
      [] e = "SWITCH_TO_WEBAUDIO" ->
           IF t.audioSource = "html" /\ hasWebAudioBuffer(t)
           THEN Put(S, a, setupWebAudio(
                              [t EXCEPT !.audioSource = "webaudio"], now))
           ELSE S
      [] e = "WEBAUDIO_LOADED" ->
           IF t.audioSource # "loadingWebAudio" THEN S
           ELSE LET S1 == storeWebAudioBuffer(S, a)
                IN  Put(S1, a, setupWebAudio(
                        [S1.track[a] EXCEPT !.audioSource = "webaudio"], now))
      [] e = "WEBAUDIO_ERROR" ->
           IF t.audioSource # "loadingWebAudio" THEN S
           ELSE Put(S, a, [t EXCEPT !.audioSource = "html"])
      [] e = "SET_VOLUME" -> Put(S, a, setVolume(t, ev.arg))
      [] e = "PRELOAD" -> preload(S, a)
      [] OTHER -> S

\* ------------------------------------------------ queue machine: actions
Cur(S) == ActorAt(S, S.currentTrackIdx)

activateCurrentTrack(S) == TSend(S, Cur(S), Ev("ACTIVATE", 0))

playCurrentTrack(S) == TSend(S, Cur(S), Ev("PLAY", 0))

pauseCurrentTrack(S) == TSend(S, Cur(S), Ev("PAUSE", 0))

\* fault variant: no track is paused
pauseAllTracksOmitted(S) == S

pauseAllTracks(S) == SendAll(S, 0, Ev("PAUSE", 0))

seekCurrentTrackToStart(S) == TSend(S, Cur(S), Ev("SEEK", 0))

\* fault variant: the seek is forwarded to every track
seekAllTracks(S, ev) == SendAll(S, 0, Ev("SEEK", ev.arg))

\* fault variant: the source stopped by the seek still has its onended
\* handler, which sends ENDED
seekCurrentTrackFiringEnded(S, ev) ==
    TSend(TSend(S, Cur(S), Ev("SEEK", ev.arg)), Cur(S), Ev("ENDED", 0))

seekCurrentTrack(S, ev) == TSend(S, Cur(S), Ev("SEEK", ev.arg))

updateCurrentTrackIdx(S, ev) == [S EXCEPT !.currentTrackIdx = ev.arg[1]]

playNext(S) ==
    LET S1 == TSend(S, Cur(S), Ev("DEACTIVATE", 0))
        nextIdx == S.currentTrackIdx + 1
    IN  IF nextIdx < Len0(S)
        THEN QSend(QSend(S1, Ev("GOTO", <<nextIdx, FALSE>>)), Ev("PLAY", 0))
        ELSE S1

\* fault variant: the next track is activated but not played
autoAdvanceWithoutPlay(S) ==
    LET S1 == TSend(S, Cur(S), Ev("DEACTIVATE", 0))
        nextIdx == S.currentTrackIdx + 1
    IN  IF nextIdx < Len0(S)
        THEN LET S2 == TSend(S1, ActorAt(S1, nextIdx), Ev("ACTIVATE", 0))
             IN  [S2 EXCEPT !.currentTrackIdx = nextIdx]
        ELSE S1

\* fault variant: the track after the next one is not asked to preload
autoAdvanceWithoutPreload(S) ==
    LET S1 == TSend(S, Cur(S), Ev("DEACTIVATE", 0))
        nextIdx == S.currentTrackIdx + 1
    IN  IF nextIdx < Len0(S)
        THEN LET S2 == TSend(S1, ActorAt(S1, nextIdx), Ev("ACTIVATE", 0))
                 S3 == TSend(S2, ActorAt(S2, nextIdx), Ev("PLAY", 0))
             IN  [S3 EXCEPT !.currentTrackIdx = nextIdx]
        ELSE S1

autoAdvanceToNext(S) ==
    LET S1 == TSend(S, Cur(S), Ev("DEACTIVATE", 0))
        nextIdx == S.currentTrackIdx + 1
        trackAfterNext == nextIdx + 1
    IN  IF nextIdx < Len0(S)
        THEN LET S2 == TSend(S1, ActorAt(S1, nextIdx), Ev("ACTIVATE", 0))
                 S3 == TSend(S2, ActorAt(S2, nextIdx), Ev("PLAY", 0))
                 S4 == IF trackAfterNext < Len0(S)
                       THEN TSend(S3, ActorAt(S3, trackAfterNext),
                                  Ev("PRELOAD", 0))
                       ELSE S3
             IN  [S4 EXCEPT !.currentTrackIdx = nextIdx]
        ELSE S1

gotoNext(S) ==
    LET S1 == TSend(S, Cur(S), Ev("DEACTIVATE", 0))
        nextIdx == S.currentTrackIdx + 1
    IN  IF nextIdx < Len0(S)
        THEN QSend(S1, Ev("GOTO", <<nextIdx, FALSE>>))
        ELSE S1

\* currentActor.getSnapshot().context.currentTime || 0
SnapshotTime(S) == IF Cur(S) = 0 THEN 0 ELSE S.track[Cur(S)].currentTime

playPrevious(S) ==
    IF SnapshotTime(S) > PreviousThreshold
    THEN TSend(S, Cur(S), Ev("SEEK", 0))
    ELSE LET S1 == TSend(S, Cur(S), Ev("DEACTIVATE", 0))
             prevIdx == Max(0, S.currentTrackIdx - 1)
         IN  QSend(QSend(S1, Ev("GOTO", <<prevIdx, FALSE>>)), Ev("PLAY", 0))

gotoPrevious(S) ==
    IF SnapshotTime(S) > PreviousThreshold
    THEN TSend(S, Cur(S), Ev("SEEK", 0))
    ELSE LET S1 == TSend(S, Cur(S), Ev("DEACTIVATE", 0))
             prevIdx == Max(0, S.currentTrackIdx - 1)
         IN  QSend(S1, Ev("GOTO", <<prevIdx, FALSE>>))

\* fault variant: the index is left where the playlist ended
resetToFirstTrackOmitted(S) == S

resetToFirstTrack(S) == [S EXCEPT !.currentTrackIdx = 0]

setVolumeQueue(S, ev) ==
    [S EXCEPT !.volume = Max(0, Min(VolumeScale, ev.arg))]

loadCurrentTrack(S) == TSend(S, Cur(S), Ev("PRELOAD", 0))

handleTrackLoaded(S, ev) ==
    IF ev.arg = S.currentTrackIdx
    THEN LET nextIdx == S.currentTrackIdx + 1
         IN  IF nextIdx < Len0(S)
             THEN TSend(S, ActorAt(S, nextIdx), Ev("PRELOAD", 0))
             ELSE S
    ELSE S

\* context.tracks and context.trackActors always have the same length, so
\* context.tracks.length is Len0(S); the new actor gets no onTrackLoaded /
\* onTrackEnded input
addTrack(S) ==
    LET id == S.spawned + 1 IN
    [S EXCEPT !.spawned = id,
              !.trackActors = Append(@, id),
              !.track[id] = TrackContext(Len0(S), S.volume,
                                         S.webAudioIsDisabled, FALSE)]

\* context.trackActors.findIndex(actor => actor === event.track), 0-based
FindIndex(S, a) ==
    IF \E k \in 1..Len0(S) : S.trackActors[k] = a
    THEN (CHOOSE k \in 1..Len0(S) : S.trackActors[k] = a) - 1
    ELSE -1

Splice(seq, k) == SubSeq(seq, 1, k) \o SubSeq(seq, k + 2, Len(seq))

removeTrack(S, ev) ==
    LET index == FindIndex(S, ev.arg)
        newLength == Len0(S) - 1
    IN  IF index = -1 THEN S
        ELSE [S EXCEPT
               !.trackActors = Splice(@, index),
               !.currentTrackIdx =
                   IF @ >= newLength /\ @ > 0 THEN newLength - 1 ELSE @]

notifyEnded(S) == [S EXCEPT !.onEndedCalls = Count(@)]

isLastTrack(S) == S.currentTrackIdx >= Len0(S) - 1

\* ------------------------------------------- queue machine: transitions
GotoActions(S, ev, play) ==
    LET S1 == seekCurrentTrackToStart(
                  updateCurrentTrackIdx(pauseAllTracks(S), ev))
        S2 == IF play THEN playCurrentTrack(S1) ELSE S1
    IN  loadCurrentTrack(S2)

Common(S, ev) ==
    LET e == ev.type IN
    CASE e = "SET_VOLUME" -> setVolumeQueue(S, ev)
      [] e = "ADD_TRACK" -> addTrack(S)
      [] e = "REMOVE_TRACK" -> removeTrack(S, ev)
      [] e = "TRACK_LOADED" -> handleTrackLoaded(S, ev)
      [] OTHER -> S

QStep(S, ev) ==
    LET e == ev.type IN
    IF S.value = "playing" THEN
        CASE e = "PAUSE" -> [pauseCurrentTrack(S) EXCEPT !.value = "paused"]
          [] e = "TRACK_ENDED" ->
               IF isLastTrack(S)
               THEN [notifyEnded(S) EXCEPT !.value = "ended",
                                           !.endedEntries = Count(@)]
               ELSE autoAdvanceToNext(S)
          [] e = "NEXT" -> playNext(S)
          [] e = "PREVIOUS" -> playPrevious(S)
          [] e = "GOTO" -> GotoActions(S, ev, TRUE)
          [] e = "SEEK" -> seekCurrentTrack(S, ev)
          [] OTHER -> Common(S, ev)
    ELSE IF S.value = "paused" THEN
        CASE e = "PLAY" -> [playCurrentTrack(S) EXCEPT !.value = "playing"]
          [] e = "NEXT" -> gotoNext(S)
          [] e = "PREVIOUS" -> gotoPrevious(S)
          [] e = "GOTO" -> GotoActions(S, ev, FALSE)
          [] e = "SEEK" -> seekCurrentTrack(S, ev)
          [] OTHER -> Common(S, ev)
    ELSE
        CASE e = "PLAY" ->
               [playCurrentTrack(activateCurrentTrack(resetToFirstTrack(S)))
                  EXCEPT !.value = "playing"]
          [] e = "GOTO" -> [GotoActions(S, ev, TRUE) EXCEPT !.value = "paused"]
          [] OTHER -> Common(S, ev)

\* ------------------------------------------------------ the whole system
Idle(v, c, vol, ta, dis, tr, sp, clk, calls, entries, refused) ==
    [value |-> v, currentTrackIdx |-> c, volume |-> vol, trackActors |-> ta,
     webAudioIsDisabled |-> dis, track |-> tr, spawned |-> sp, clock |-> clk,
     onEndedCalls |-> calls, endedEntries |-> entries,
     playRefused |-> refused,
     qbox |-> <<>>, qbusy |-> FALSE,
     tbox |-> [a \in Actors |-> <<>>], tbusy |-> [a \in Actors |-> FALSE]]

Now == Idle(value, currentTrackIdx, volume, trackActors, webAudioIsDisabled,
            track, spawned, clock, onEndedCalls, endedEntries, playRefused)

Commit(S) ==
    /\ value' = S.value
    /\ currentTrackIdx' = S.currentTrackIdx
    /\ volume' = S.volume
    /\ trackActors' = S.trackActors
    /\ webAudioIsDisabled' = S.webAudioIsDisabled
    /\ track' = S.track
    /\ spawned' = S.spawned
    /\ clock' = S.clock
    /\ onEndedCalls' = S.onEndedCalls
    /\ endedEntries' = S.endedEntries
    /\ playRefused' = S.playRefused

\* queue machine `context` factory and root entry actions:
\* spawnInitialTracks, then loadCurrentTrack
spawnInitialTracks(n, dis) ==
    Idle("paused", 0, VolumeScale, [k \in 1..n |-> k], dis,
         [a \in Actors |-> TrackContext(a - 1, VolumeScale, dis, a <= n)],
         n, 0, 0, 0, FALSE)

Created(n, dis) == loadCurrentTrack(spawnInitialTracks(n, dis))

Constructed(n, dis) ==
    /\ value = Created(n, dis).value
    /\ currentTrackIdx = Created(n, dis).currentTrackIdx
    /\ volume = Created(n, dis).volume
    /\ trackActors = Created(n, dis).trackActors
    /\ webAudioIsDisabled = Created(n, dis).webAudioIsDisabled
    /\ track = Created(n, dis).track
    /\ spawned = Created(n, dis).spawned
    /\ clock = 0
    /\ onEndedCalls = 0
    /\ endedEntries = 0

\* construction in a browser that lets audio.play() start playback
InitWith(n, dis) == Constructed(n, dis) /\ playRefused = FALSE

\* ------------------------------------------------- commands of the facade
Play == Commit(QSend(Now, Ev("PLAY", 0)))

Pause == Commit(QSend(Now, Ev("PAUSE", 0)))

NextTrack == Commit(QSend(Now, Ev("NEXT", 0)))

Previous == Commit(QSend(Now, Ev("PREVIOUS", 0)))

GotoTrack(index, playImmediately) ==
    Commit(QSend(Now, Ev("GOTO", <<index, playImmediately>>)))

Seek(time) == Commit(QSend(Now, Ev("SEEK", time)))

SetVolume(v) == Commit(QSend(Now, Ev("SET_VOLUME", v)))

AddTrack ==
    /\ spawned < MaxActors
    /\ Commit(QSend(Now, Ev("ADD_TRACK", 0)))

\* the facade looks the actor up and sends nothing when there is none
RemoveTrack(trackIndex) ==
    /\ ActorAt(Now, trackIndex) # 0
    /\ Commit(QSend(Now, Ev("REMOVE_TRACK", ActorAt(Now, trackIndex))))

\* a caller holding a track actor (Gapless.tracks) sends it SET_VOLUME
TrackSetVolume(a, v) ==
    /\ a <= spawned
    /\ Commit(TSend(Now, a, Ev("SET_VOLUME", v)))

\* the events a track actor accepts from whoever holds it (Gapless.tracks,
\* the queue machine, its own callbacks)
TrackEvents ==
    { Ev("PLAY", 0), Ev("PAUSE", 0), Ev("ACTIVATE", 0), Ev("DEACTIVATE", 0),
      Ev("PRELOAD", 0), Ev("LOAD_WEBAUDIO", 0), Ev("SWITCH_TO_WEBAUDIO", 0),
      Ev("WEBAUDIO_LOADED", 0), Ev("SEEK", SeekEnd) }

\* actor.send(ev) on a track actor, from outside the machines
TrackSend(a, ev) ==
    /\ a <= spawned
    /\ Commit(TSend(Now, a, ev))

\* ------------------------------------------------------- browser events
\* time passes: the context clock and every playing audio element advance
Tick ==
    /\ clock + TickStep <= MaxClock
    /\ clock' = clock + TickStep
    /\ track' = [a \in Actors |->
                   IF track[a].audio /\ ~track[a].audioPaused
                   THEN [track[a] EXCEPT
                           !.audioTime = Min(@ + TickStep, TrackDuration)]
                   ELSE track[a]]
    /\ UNCHANGED <<value, currentTrackIdx, volume, trackActors,
                   webAudioIsDisabled, spawned, onEndedCalls, endedEntries,
                   playRefused>>

\* the audio element reached the end of its media: it becomes paused and
\* its onended handler sends ENDED
AudioEnded(a) ==
    /\ a <= spawned
    /\ track[a].audio /\ ~track[a].audioPaused
    /\ track[a].audioTime >= TrackDuration
    /\ Commit(TSend(Put(Now, a, [track[a] EXCEPT !.audioPaused = TRUE]),
                    a, Ev("ENDED", 0)))

\* the started buffer source played its buffer to the end: its onended
\* handler sends ENDED
BufferSourceEnded(a) ==
    /\ a <= spawned
    /\ track[a].bufferSourceNode = "started"
    /\ clock - track[a].webAudioStartedPlayingAt >= TrackDuration
    /\ Commit(TSend(Put(Now, a, [track[a] EXCEPT
                                   !.bufferSourceNode = "stopped"]),
                    a, Ev("ENDED", 0)))

\* the fetch / decode pipeline of startLoadingWebAudio resolves
WebAudioLoaded(a) ==
    /\ a <= spawned
    /\ track[a].fetching > 0
    /\ Commit(TSend(Put(Now, a, [track[a] EXCEPT !.fetching = @ - 1]),
                    a, Ev("WEBAUDIO_LOADED", 0)))

\* fault variant: the catch handler logs the error and sends no event
WebAudioErrorNotSent(a) ==
    /\ a <= spawned
    /\ track[a].fetching > 0
    /\ Commit(Put(Now, a, [track[a] EXCEPT !.fetching = @ - 1]))

\* the fetch / decode pipeline of startLoadingWebAudio rejects
WebAudioError(a) ==
    /\ a <= spawned
    /\ track[a].fetching > 0
    /\ Commit(TSend(Put(Now, a, [track[a] EXCEPT !.fetching = @ - 1]),
                    a, Ev("WEBAUDIO_ERROR", 0)))

\* the first frame requested by startProgressTracking fires: it sends
\* PROGRESS and requests the next frame, whose id is written into the
\* context object the closure captured, not into the actor's context
FirstFrame(a) ==
    /\ a <= spawned
    /\ track[a].progressAnimationFrame = "pending"
    /\ Commit(TSend(Put(Now, a, [track[a] EXCEPT
                                   !.progressAnimationFrame = "fired",
                                   !.staleLoops = Min(@ + 1, MaxLoops)]),
                    a, Ev("PROGRESS", 0)))

\* a later frame of a loop fires
LaterFrame(a) ==
    /\ a <= spawned
    /\ track[a].staleLoops > 0
    /\ Commit(TSend(Now, a, Ev("PROGRESS", 0)))

\* -------------------------------------------------------- specifications
Ends ==
    \/ \E a \in Actors : AudioEnded(a)
    \/ \E a \in Actors : BufferSourceEnded(a)

Loads ==
    \/ \E a \in Actors : WebAudioLoaded(a)
    \/ \E a \in Actors : WebAudioError(a)

Frames ==
    \/ \E a \in Actors : FirstFrame(a)
    \/ \E a \in Actors : LaterFrame(a)

\* Commands of the playback surface on a queue of one to MaxTracks initial
\* tracks, with the precise backend enabled or disabled; a seek past the end
\* lets the current track reach its end without waiting.
Init ==
    \E n \in 1..MaxTracks, dis \in BOOLEAN : InitWith(n, dis)

Next ==
    \/ Play
    \/ Pause
    \/ NextTrack
    \/ Previous
    \/ \E i \in GotoIndexes, p \in BOOLEAN : GotoTrack(i, p)
    \/ \E t \in SeekTimes : Seek(t)
    \/ Ends
    \/ Loads

Spec == Init /\ [][Next]_vars

\* Sequential playback of up to MaxActors initial tracks in real time.
InitPlayback ==
    \E n \in 1..MaxActors, dis \in BOOLEAN : InitWith(n, dis)

NextPlayback ==
    \/ Play
    \/ Pause
    \/ Tick
    \/ Ends
    \/ Loads

SpecPlayback == InitPlayback /\ [][NextPlayback]_vars

\* A queue whose track list changes while it plays: the streaming backend
\* only, tracks appended and removed, ends reached by seeking past the end.
InitQueue ==
    \E n \in 0..MaxActors : InitWith(n, TRUE)

NextQueue ==
    \/ Play
    \/ \E i \in GotoIndexes, p \in BOOLEAN : GotoTrack(i, p)
    \/ Seek(SeekEnd)
    \/ \E a \in Actors : AudioEnded(a)
    \/ AddTrack
    \/ \E i \in 0..(MaxActors - 1) : RemoveTrack(i)

SpecQueue == InitQueue /\ [][NextQueue]_vars

\* One track, every seek target, both backends, with its progress loop.
InitTrack ==
    \E dis \in BOOLEAN : InitWith(1, dis)

NextTrack1 ==
    \/ Play
    \/ Pause
    \/ \E t \in SeekTimes : Seek(t)
    \/ Tick
    \/ Ends
    \/ Loads
    \/ Frames

SpecTrack == InitTrack /\ [][NextTrack1]_vars

\* Volume changes at the queue and at single tracks.
NextVolume ==
    \/ Play
    \/ Pause
    \/ \E i \in 0..(MaxTracks - 1) : GotoTrack(i, FALSE)
    \/ \E t \in SeekTimes : Seek(t)
    \/ \E v \in Volumes : SetVolume(v)
    \/ \E a \in Actors, v \in Volumes : TrackSetVolume(a, v)
    \/ Loads

SpecVolume == Init /\ [][NextVolume]_vars

\* Any event sent to any track actor, next to the queue's commands, with the
\* precise backend enabled or disabled.
NextEvents ==
    \/ Play
    \/ Pause
    \/ NextTrack
    \/ \E a \in Actors, ev \in TrackEvents : TrackSend(a, ev)
    \/ Ends
    \/ Loads

SpecEvents == Init /\ [][NextEvents]_vars

\* Track-list changes while the precise backend loads: queues of one to
\* MaxActors initial tracks with the backend enabled.
InitLoads ==
    \E n \in 1..MaxActors : InitWith(n, FALSE)

NextLoads ==
    \/ Play
    \/ Pause
    \/ NextTrack
    \/ \E i \in 0..(MaxActors - 1) : RemoveTrack(i)
    \/ Loads

SpecLoads == InitLoads /\ [][NextLoads]_vars

\* Tracks appended after the queue's volume was changed.
NextAppend ==
    \/ Play
    \/ Pause
    \/ \E v \in Volumes : SetVolume(v)
    \/ AddTrack

SpecAppend == InitQueue /\ [][NextAppend]_vars

\* Playback of one to MaxTracks tracks with the progress loops running.
NextProgress ==
    \/ Play
    \/ Pause
    \/ Tick
    \/ Frames
    \/ Ends
    \/ Loads

SpecProgress == Init /\ [][NextProgress]_vars

\* ------------------------------------------------------------ properties
InQueue == {trackActors[k] : k \in 1..Len(trackActors)}

PlayingInQueue == {a \in InQueue : track[a].playback = "playing"}

LastIdx == Len(trackActors) - 1

Clamp(x, lo, hi) == Max(lo, Min(hi, x))

\* C1: after any interleaving of play, pause, next, previous, gotoTrack,
\* seek, end-of-track, load completed and load failed, at most one track
\* actor held by the queue is in its `playing` playback state.
C1_AtMostOnePlaying == Cardinality(PlayingInQueue) <= 1

\* the first track plays again after the second one had been activated
C1_Witness ==
    /\ value = "playing" /\ currentTrackIdx = 0
    /\ trackActors = <<1, 2>>
    /\ track[1].playback = "playing"
    /\ track[2].gainNode /\ track[2].playback = "paused"

\* C2: for every valid index i and from every queue state, gotoTrack(i, true)
\* leaves currentTrackIdx = i and the queue in `playing`.
C2_GotoTrackPlays ==
    [][\A i \in 0..LastIdx :
         GotoTrack(i, TRUE) => (currentTrackIdx' = i /\ value' = "playing")]_vars

\* C3: when the queue is `playing` and the track actor at the last index
\* reports its end, the queue enters `ended` and currentTrackIdx is the last
\* index.
C3_LastTrackEnds ==
    [][\A a \in Actors :
         ( /\ value = "playing"
           /\ Len(trackActors) > 0 /\ trackActors[Len(trackActors)] = a
           /\ track[a].wired /\ track[a].playback = "playing"
           /\ AudioEnded(a) )
         => (value' = "ended" /\ currentTrackIdx' = LastIdx)]_vars

\* C4: at every moment the number of invocations of the user's onEnded
\* callback equals the number of times the queue has entered `ended`.
C4_OnEndedOncePerEnd == onEndedCalls = endedEntries

\* C5: from `ended`, play() sets currentTrackIdx to 0, moves the queue to
\* `playing` and puts the track actor at index 0 into `playing`.
C5_PlayFromEnded ==
    [][(value = "ended" /\ Play)
         => ( /\ currentTrackIdx' = 0 /\ value' = "playing"
              /\ track'[trackActors'[1]].playback = "playing" )]_vars

\* the playlist of two tracks has ended and plays again from its first track
C5_Witness ==
    /\ endedEntries >= 1 /\ value = "playing" /\ currentTrackIdx = 0
    /\ trackActors = <<1, 2>>
    /\ track[1].playback = "playing"
    /\ track[2].gainNode /\ track[2].playback = "paused"
    /\ onEndedCalls = MaxCalls

\* C6: when the queue is `playing` track k, k is not the last index and
\* track k reports its end, the queue stays `playing`, currentTrackIdx
\* becomes k+1, track k is deactivated and not playing, track k+1 is
\* playing, and a track k+2 whose precise backend is enabled and that has
\* no decoded buffer is loading it.
C6_AutoAdvance ==
    [][\A a \in Actors :
         LET k == currentTrackIdx IN
         ( /\ value = "playing"
           /\ k >= 0 /\ k < LastIdx /\ trackActors[k + 1] = a
           /\ track[a].wired /\ track[a].playback = "playing"
           /\ (AudioEnded(a) \/ BufferSourceEnded(a)) )
         => ( /\ value' = "playing" /\ currentTrackIdx' = k + 1
              /\ track'[a].playback = "paused"
              /\ ~track'[a].audio /\ track'[a].bufferSourceNode = "null"
              /\ track'[trackActors[k + 2]].playback = "playing"
              /\ k + 2 <= LastIdx =>
                   LET c == trackActors[k + 3] IN
                   (~track[c].webAudioIsDisabled /\ ~track[c].audioBuffer)
                     => ( /\ track'[c].audioSource = "loadingWebAudio"
                          /\ track'[c].fetching > 0 ) )]_vars

\* the first of three tracks has ended: the second plays and the third loads
C6_Witness ==
    /\ value = "playing" /\ currentTrackIdx = 1
    /\ trackActors = <<1, 2, 3>>
    /\ onEndedCalls >= 1 /\ endedEntries = 0
    /\ track[1].playback = "paused" /\ track[1].gainNode /\ ~track[1].audio
    /\ track[2].playback = "playing"
    /\ track[3].audioSource = "loadingWebAudio" /\ track[3].fetching > 0

\* C7: whenever the queue holds a track, 0 <= currentTrackIdx < number of
\* tracks after every command and every track event.
C7_IndexInRange ==
    Len(trackActors) > 0 =>
        (0 <= currentTrackIdx /\ currentTrackIdx < Len(trackActors))

\* C8: for a track whose duration d is known, seek(t) sets the position to
\* d when t > d, to 0 when t < 0 and to t otherwise, on both backends,
\* playing and paused.
C8_SeekClamps ==
    [][\A t \in SeekTimes :
         ( /\ track[1].duration = TrackDuration
           /\ (track[1].audio \/ track[1].audioBuffer)
           /\ Seek(t) )
         => track'[1].currentTime = Clamp(t, 0, TrackDuration)]_vars

\* C9: after setVolume(v) on the queue, the queue's volume is v clamped to
\* [0, 1] and the volume of every track actor in the queue equals it.
C9_SetVolumeReachesTracks ==
    [][\A v \in Volumes :
         SetVolume(v)
         => ( /\ volume' = Clamp(v, 0, VolumeScale)
              /\ \A a \in InQueue : track'[a].volume = volume' )]_vars

VolumeAgrees(t) ==
    /\ t.volume \in 0..VolumeScale
    /\ t.audio => t.audioVolume = t.volume
    /\ t.gainNode => t.gain = t.volume

\* C10: within one track actor, after a volume change to v the volume is v
\* clamped to [0, 1]; the audio element's volume and the gain node's gain
\* equal the track's volume whenever they exist, whenever they were created.
C10_BackendsAgreeOnVolume ==
    /\ [](\A a \in 1..spawned : VolumeAgrees(track[a]))
    /\ [][\A a \in Actors, v \in Volumes :
            TrackSetVolume(a, v)
            => track'[a].volume = Clamp(v, 0, VolumeScale)]_vars

\* the first track plays from its buffer at half volume; the second one was
\* muted before its audio element and gain node existed
C10_Witness ==
    /\ track[1].audioSource = "webaudio" /\ track[1].gainNode
    /\ track[1].volume = 1 /\ track[1].gain = 1
    /\ track[2].audio /\ track[2].gainNode
    /\ track[2].volume = 0 /\ track[2].audioVolume = 0 /\ track[2].gain = 0

\* C11: when a track actor that is playing from its audio element completes
\* its load, in one step it stays `playing`, the audio element is released
\* and a buffer source is started with timing anchor clock - p, p being the
\* audio element's position just before: the position computed right after
\* the handoff equals the position right before it.  Stated for tracks
\* whose stored position lies within the media.
C11_HandoffKeepsPosition ==
    [][\A a \in Actors :
         ( /\ track[a].playback = "playing"
           /\ track[a].currentTime <= TrackDuration
           /\ track[a].audio /\ ~track[a].audioPaused
           /\ track[a].audioSource = "loadingWebAudio"
           /\ WebAudioLoaded(a) )
         => ( /\ track'[a].playback = "playing"
              /\ ~track'[a].audio
              /\ track'[a].bufferSourceNode = "started"
              /\ track'[a].webAudioStartedPlayingAt
                   = clock - track[a].audioTime
              /\ clock' - track'[a].webAudioStartedPlayingAt
                   = track[a].audioTime )]_vars

\* C12: for a track actor on the precise backend, pause stores the position
\* clock - anchor, the stored position does not change while time passes,
\* and resume, whatever the clock has become, starts a buffer source whose
\* computed position equals the stored one.
C12_PauseResumeKeepsPosition ==
    [][\A a \in Actors :
         LET t == track[a] IN
         /\ ( /\ value = "playing" /\ Cur(Now) = a
              /\ t.playback = "playing" /\ t.bufferSourceNode = "started"
              /\ Pause )
            => ( /\ track'[a].playback = "paused"
                 /\ track'[a].bufferSourceNode = "null"
                 /\ track'[a].currentTime
                      = Max(0, clock - t.webAudioStartedPlayingAt) )
         /\ (t.playback = "paused" /\ isUsingWebAudio(t) /\ Tick)
            => track'[a].currentTime = t.currentTime
         /\ ( /\ value = "paused" /\ Cur(Now) = a
              /\ t.playback = "paused" /\ isUsingWebAudio(t)
              /\ Play )
            => ( /\ track'[a].playback = "playing"
                 /\ track'[a].bufferSourceNode = "started"
                 /\ clock' - track'[a].webAudioStartedPlayingAt
                      = t.currentTime )]_vars

\* the first track plays from its buffer again, resumed at the position it
\* was paused at, later than that position on the context clock
C12_Witness ==
    /\ value = "playing" /\ currentTrackIdx = 0
    /\ track[1].playback = "playing" /\ track[1].bufferSourceNode = "started"
    /\ track[1].currentTime > 0
    /\ clock - track[1].webAudioStartedPlayingAt = track[1].currentTime
    /\ clock > track[1].currentTime

\* the actor the queue points at; 0 when currentTrackIdx is out of range
CurrentActor == Cur(Now)

\* C13: removeTrack of a track other than the current one leaves the queue
\* pointing at the same track actor: currentTrackIdx is decremented when the
\* removed position is before it and unchanged when it is after it.
C13_RemoveKeepsCurrent ==
    [][\A i \in 0..(MaxActors - 1) :
         ( /\ CurrentActor # 0
           /\ i # currentTrackIdx
           /\ RemoveTrack(i) )
         => ( /\ CurrentActor' = CurrentActor
              /\ currentTrackIdx' = IF i < currentTrackIdx
                                    THEN currentTrackIdx - 1
                                    ELSE currentTrackIdx )]_vars

\* C14: after any sequence of addTrack and removeTrack the index recorded
\* in each track actor of the queue equals the actor's position in the
\* queue.
C14_IndexIsPosition ==
    \A k \in 1..Len(trackActors) : track[trackActors[k]].idx = k - 1

\* C15: after removeTrack the removed track actor is not `playing` and holds
\* neither an audio element nor a buffer source.
C15_RemovedIsTornDown ==
    [][\A i \in 0..(MaxActors - 1) :
         RemoveTrack(i)
         => LET r == track'[trackActors[i + 1]] IN
            /\ r.playback = "paused"
            /\ ~r.audio
            /\ r.bufferSourceNode = "null"]_vars

\* Playback in a browser that may reject audio.play().
InitRefusal ==
    \E n \in 1..MaxTracks, dis \in BOOLEAN :
        Constructed(n, dis) /\ playRefused \in BOOLEAN

NextRefusal ==
    \/ Play
    \/ Pause
    \/ NextTrack
    \/ Tick
    \/ Ends
    \/ Loads

SpecRefusal == InitRefusal /\ [][NextRefusal]_vars

\* C16: if audio.play() is rejected when play() is issued, the queue and the
\* track actor remain `paused`.
C16_RefusedPlayStaysPaused ==
    [][( /\ playRefused
         /\ value = "paused"
         /\ CurrentActor # 0
         /\ ~isUsingWebAudio(track[CurrentActor])
         /\ Play )
       => ( /\ value' = "paused"
            /\ track'[CurrentActor].playback = "paused" )]_vars

\* C17: next() while the queue is `playing` its last track moves the queue
\* to `ended` and invokes the onEnded callback, as the natural end of the
\* last track does.
C17_NextAtEndEnds ==
    [][( /\ value = "playing"
         /\ CurrentActor # 0 /\ currentTrackIdx = LastIdx
         /\ track[CurrentActor].playback = "playing"
         /\ NextTrack )
       => ( /\ value' = "ended"
            /\ onEndedCalls' = Count(onEndedCalls) )]_vars

\* a track actor without audio element and buffer source, not playing
Deactivated(t) ==
    t.playback = "paused" /\ ~t.audio /\ t.bufferSourceNode = "null"

\* the system after previous() has been processed in the current state
AfterPrevious == QSend(Now, Ev("PREVIOUS", 0))

\* C18: previous() in queue state `playing` or `paused`: when the current
\* track's currentTime is greater than 8 the track is sought to 0 and
\* currentTrackIdx and the playing track are unchanged; otherwise
\* currentTrackIdx becomes max(0, currentTrackIdx - 1) and the track that
\* was current is deactivated (unless it is the one played again).
C18_Previous ==
    (value \in {"playing", "paused"} /\ CurrentActor # 0)
    => LET a == CurrentActor
           S == AfterPrevious
       IN  IF track[a].currentTime > PreviousThreshold
           THEN /\ S.track[a].currentTime = 0
                /\ S.currentTrackIdx = currentTrackIdx
                /\ S.value = value
                /\ \A b \in InQueue :
                     S.track[b].playback = track[b].playback
           ELSE /\ S.currentTrackIdx = Max(0, currentTrackIdx - 1)
                /\ (currentTrackIdx > 0 \/ value = "paused")
                     => Deactivated(S.track[a])

\* the system after gotoTrack(index, false) has been processed in the
\* current state
AfterGotoTrack(index) == QSend(Now, Ev("GOTO", <<index, FALSE>>))

\* C19: gotoTrack(index, false) never starts playback: from any queue
\* state, once it is processed the selected track is the current one, at
\* position 0, and every track of the queue is paused.
C19_GotoWithoutPlay ==
    \A index \in 0..LastIdx :
      LET S == AfterGotoTrack(index)
      IN  /\ S.currentTrackIdx = index
          /\ \A b \in InQueue : S.track[b].playback = "paused"

\* C20: a track created with the precise backend disabled never uses it:
\* whatever events it receives it stays in audioSource `html` (never
\* loadingWebAudio or webaudio), starts no fetch / decode pipeline, holds no
\* decoded buffer and creates no buffer source.
C20_DisabledNeverPrecise ==
    \A a \in 1..spawned :
      track[a].webAudioIsDisabled
      => /\ track[a].audioSource = "html"
         /\ track[a].fetching = 0
         /\ ~track[a].audioBuffer
         /\ track[a].bufferSourceNode = "null"
         /\ track[a].orphanSources = 0

\* a disabled track plays on its audio element (startPlayback has read the
\* flag) after a SEEK sent to the actor moved it to the end of the media
C20_Witness ==
    \E a \in InQueue :
      /\ track[a].webAudioIsDisabled
      /\ track[a].playback = "playing"
      /\ track[a].audio /\ ~track[a].audioPaused
      /\ track[a].audioTime = TrackDuration

\* C21: in every reachable state of a track whose duration is known,
\* currentTime <= duration.
C21_PositionWithinDuration ==
    \A a \in 1..spawned :
      track[a].duration > 0 => track[a].currentTime <= track[a].duration

\* C22: whenever a track produces audio through a started buffer source,
\* its audioSource state is `webaudio` (the backend reported in the progress
\* info is the one in use).
C22_BufferSourceMeansWebAudio ==
    \A a \in 1..spawned :
      track[a].bufferSourceNode = "started"
      => track[a].audioSource = "webaudio"

\* C23: whenever the queue is in `paused` or `ended`, no track actor of the
\* queue is in its `playing` state.
C23_NothingPlaysWhenNotPlaying ==
    value \in {"paused", "ended"} => PlayingInQueue = {}

\* C24: whenever the queue is in `playing` and holds at least one track, the
\* track actor at currentTrackIdx is in its `playing` state.
C24_CurrentPlaysWhenPlaying ==
    (value = "playing" /\ Len(trackActors) > 0)
    => (CurrentActor # 0 /\ track[CurrentActor].playback = "playing")

\* C25: the queue enters `ended` only in a step in which the track actor at
\* the last index of the queue reports its end; the end of any other track
\* actor (not last, or no longer in the queue) never moves it to `ended`.
C25_EndedOnlyByLastTrack ==
    [][(value # "ended" /\ value' = "ended")
       => \E a \in Actors :
            /\ Len(trackActors) > 0
            /\ trackActors[Len(trackActors)] = a
            /\ (AudioEnded(a) \/ BufferSourceEnded(a))]_vars

\* C26: the end of a track appended with addTrack (spawned without the
\* onTrackLoaded / onTrackEnded inputs: `wired` is FALSE) drives the queue
\* like the end of an initial track: while the queue is `playing` that
\* track, its end moves the queue to `ended` when it is last, and otherwise
\* advances to the next track, which plays.
C26_AppendedTrackEnds ==
    [][\A a \in Actors :
         ( /\ value = "playing"
           /\ CurrentActor = a /\ ~track[a].wired
           /\ track[a].playback = "playing"
           /\ AudioEnded(a) )
         => IF currentTrackIdx = LastIdx
            THEN value' = "ended"
            ELSE /\ value' = "playing"
                 /\ currentTrackIdx' = currentTrackIdx + 1
                 /\ track'[trackActors[currentTrackIdx + 2]].playback
                      = "playing"]_vars

\* the position a track is heard at: that of its started buffer source, or
\* else of its audio element, or else the stored one
PlaybackPosition(t, now) ==
    IF t.bufferSourceNode = "started" THEN now - t.webAudioStartedPlayingAt
    ELSE IF t.audio THEN t.audioTime
    ELSE t.currentTime

\* C27: a track that becomes the playing track through auto-advance, or
\* through play() after `ended`, starts playing from position 0, whatever
\* position (within the track) it retained.
C27_StartsFromZero ==
    [][/\ \A a \in Actors :
            LET k == currentTrackIdx IN
            ( /\ value = "playing"
              /\ k >= 0 /\ k < LastIdx /\ trackActors[k + 1] = a
              /\ track[a].wired /\ track[a].playback = "playing"
              /\ track[trackActors[k + 2]].currentTime <= TrackDuration
              /\ (AudioEnded(a) \/ BufferSourceEnded(a)) )
            => LET b == trackActors[k + 2] IN
               /\ track'[b].playback = "playing"
               /\ PlaybackPosition(track'[b], clock') = 0
       /\ ( /\ value = "ended" /\ Len(trackActors) > 0
            /\ track[trackActors[1]].currentTime <= TrackDuration
            /\ Play )
            => LET b == trackActors[1] IN
               /\ track'[b].playback = "playing"
               /\ PlaybackPosition(track'[b], clock') = 0]_vars

\* C28: a fetch or decode failure of a track in `loadingWebAudio` returns
\* its audioSource to `html` with no decoded buffer and starts no new load;
\* the playback state, the audio element, every other track and the queue
\* are left as they were.
C28_LoadFailureIsNonFatal ==
    [][\A a \in Actors :
         (track[a].audioSource = "loadingWebAudio" /\ WebAudioError(a))
         => /\ track'[a] = [track[a] EXCEPT !.audioSource = "html",
                                            !.fetching = @ - 1]
            /\ ~track'[a].audioBuffer
            /\ \A b \in Actors \ {a} : track'[b] = track[b]
            /\ UNCHANGED <<value, currentTrackIdx, volume, trackActors,
                           spawned, clock, onEndedCalls, endedEntries>>]_vars

\* a track with the precise backend enabled plays on its audio element with
\* no load in flight and no buffer: its load, started when it was played,
\* has failed
C28_Witness ==
    \E a \in InQueue :
      /\ ~track[a].webAudioIsDisabled
      /\ track[a].playback = "playing"
      /\ track[a].audio /\ ~track[a].audioPaused
      /\ track[a].audioSource = "html"
      /\ ~track[a].audioBuffer /\ track[a].fetching = 0

\* the progress loops of a track that still have a frame scheduled
ScheduledLoops(t) ==
    (IF t.progressAnimationFrame = "pending" THEN 1 ELSE 0) + t.staleLoops

\* C29: per track at most one progress loop is scheduled at any time, and
\* none while the track is paused (after a pause, an end or a deactivation).
C29_OneProgressLoop ==
    \A a \in 1..spawned :
      /\ ScheduledLoops(track[a]) <= 1
      /\ track[a].playback = "paused" => ScheduledLoops(track[a]) = 0

\* C30: a load completion or failure delivered to a track that no longer
\* expects it (it was removed from the queue, or it is not in
\* `loadingWebAudio`) is a no-op: apart from the pipeline having resolved,
\* no track and nothing of the queue changes, and no other track starts
\* loading.
C30_LateLoadIsNoOp ==
    [][\A a \in Actors :
         ( /\ (a \notin InQueue \/ track[a].audioSource # "loadingWebAudio")
           /\ (WebAudioLoaded(a) \/ WebAudioError(a)) )
         => /\ track' = [track EXCEPT ![a].fetching = @ - 1]
            /\ UNCHANGED <<value, currentTrackIdx, volume, trackActors,
                           spawned, clock, onEndedCalls, endedEntries>>]_vars

\* the track actors of the queue that hold a decoded buffer
HoldingBuffer == {a \in InQueue : track[a].audioBuffer}

\* C31: at most two track actors of the queue hold a decoded buffer at any
\* time.
C31_AtMostTwoBuffers == Cardinality(HoldingBuffer) <= 2

\* a track after it received a preload request
Preloaded(t) ==
    IF ~t.audioBuffer /\ ~t.webAudioIsDisabled /\ t.audioSource = "html"
    THEN [t EXCEPT !.audioSource = "loadingWebAudio", !.fetching = @ + 1]
    ELSE t

\* C32: when the load of a track of the queue completes, the track that
\* follows the current one receives a preload request if the loaded track is
\* the current one, and no track receives one otherwise; every track other
\* than the loaded one and the preloaded one is unchanged.
C32_PreloadCascade ==
    [][\A a \in Actors :
         ( /\ a \in InQueue /\ track[a].wired
           /\ track[a].audioSource = "loadingWebAudio"
           /\ WebAudioLoaded(a) )
         => LET n == IF CurrentActor = a /\ currentTrackIdx < LastIdx
                     THEN trackActors[currentTrackIdx + 2] ELSE 0
            IN  /\ track'[a].audioBuffer
                /\ \A b \in Actors \ {a} :
                     track'[b] = IF b = n THEN Preloaded(track[b])
                                 ELSE track[b]]_vars

\* C33: an end-of-track notification (handleEnded: the onEnded callback,
\* TRACK_ENDED and with it the queue entering `ended`) is produced only in a
\* step in which the audio element or the buffer source of a track in its
\* `playing` state signals completion; pause, seek and deactivation steps
\* produce none.
C33_NoSyntheticEnd ==
    [][( \/ onEndedCalls' # onEndedCalls
         \/ endedEntries' # endedEntries
         \/ (value' = "ended" /\ value # "ended") )
       => \E a \in Actors :
            /\ track[a].playback = "playing"
            /\ (AudioEnded(a) \/ BufferSourceEnded(a))]_vars

\* a track was sought and paused while it played through a buffer source,
\* and no end has been notified
C33_Witness ==
    \E a \in InQueue :
      /\ track[a].audioBuffer /\ track[a].audioSource = "webaudio"
      /\ track[a].playback = "paused"
      /\ track[a].bufferSourceNode = "null"
      /\ track[a].currentTime = PreviousThreshold + 1
      /\ onEndedCalls = 0 /\ endedEntries = 0 /\ value = "paused"

\* C34: each track has at most one started and not yet stopped buffer
\* source: the one context.bufferSourceNode refers to; no started source is
\* left behind when a new one is created.
C34_OneBufferSource ==
    \A a \in 1..spawned : track[a].orphanSources = 0

\* a track plays through a buffer source that a seek while playing created
\* in place of the previous one
C34_Witness ==
    \E a \in InQueue :
      /\ track[a].playback = "playing"
      /\ track[a].bufferSourceNode = "started"
      /\ track[a].currentTime = PreviousThreshold + 1
      /\ track[a].webAudioStartedPlayingAt = clock - (PreviousThreshold + 1)

\* C35: the decoded buffer of a track is assigned at most once: it is stored
\* only from `loadingWebAudio`, which a track with a buffer is never in; once
\* held it is kept; and no fetch / decode pipeline is started for a track
\* that holds a buffer or is already in `loadingWebAudio`.
C35_BufferAssignedOnce ==
    [][\A a \in 1..spawned :
         /\ track[a].audioSource = "loadingWebAudio" => ~track[a].audioBuffer
         /\ track[a].audioBuffer => track'[a].audioBuffer
         /\ (track[a].audioBuffer \/ track[a].audioSource = "loadingWebAudio")
              => track'[a].fetching <= track[a].fetching]_vars

\* a track that holds a decoded buffer was deactivated and is played again:
\* it plays from its buffer with no pipeline in flight
C35_Witness ==
    \E a \in InQueue :
      /\ track[a].audioBuffer /\ track[a].audioSource = "html"
      /\ track[a].playback = "playing"
      /\ track[a].bufferSourceNode = "started"
      /\ track[a].fetching = 0

\* C36: a track created at construction or by addTrack starts with the
\* queue's volume of that moment, for every queue volume including 0.
C36_NewTrackHasQueueVolume ==
    [][AddTrack => track'[spawned'].volume = volume]_vars

\* the facade's `volume` getter: context?.volume || 1
VolumeGetter(S) == IF S.volume = 0 THEN VolumeScale ELSE S.volume

\* the system after setVolume(v) has been processed in the current state
AfterSetVolume(v) == QSend(Now, Ev("SET_VOLUME", v))

\* C37: after setVolume(v) the facade's volume getter returns v clamped to
\* [0, 1], for every v including 0 and values outside [0, 1].
C37_VolumeGetter ==
    \A v \in Volumes :
      VolumeGetter(AfterSetVolume(v)) = Clamp(v, 0, VolumeScale)

\* C38: on a progress tick of the playing current track, when at most
\* PreloadThreshold seconds remain and the next track exists and has no
\* audio element yet, the next track is given one (a streaming-only
\* preload: its audioSource and its pipelines are left alone).
C38_ProgressPreloadsNext ==
    [][\A a \in Actors :
         ( /\ value = "playing" /\ CurrentActor = a
           /\ track[a].playback = "playing"
           /\ track[a].duration > 0
           /\ track[a].duration - track[a].currentTime <= PreloadThreshold
           /\ currentTrackIdx < LastIdx
           /\ ~track[trackActors[currentTrackIdx + 2]].audio
           /\ (FirstFrame(a) \/ LaterFrame(a)) )
         => LET n == trackActors[currentTrackIdx + 2]
            IN  /\ track'[n].audio
                /\ track'[n].audioSource = track[n].audioSource
                /\ track'[n].fetching = track[n].fetching]_vars

\* the system after seek(time) has been processed in the current state
AfterSeek(time) == QSend(Now, Ev("SEEK", time))

\* C39: seek(t) changes only the position of the current track:
\* currentTrackIdx, the queue state, the queue volume, the track list and
\* every other track are unchanged, and the current track keeps its playback
\* state, its backend, its handles and its volume.
C39_SeekFrame ==
    \A t \in SeekTimes :
      LET S == AfterSeek(t)
          a == CurrentActor
      IN  /\ S.value = value
          /\ S.currentTrackIdx = currentTrackIdx
          /\ S.volume = volume
          /\ S.trackActors = trackActors
          /\ S.spawned = spawned
          /\ S.onEndedCalls = onEndedCalls
          /\ S.endedEntries = endedEntries
          /\ \A b \in Actors \ {a} : S.track[b] = track[b]
          /\ a # 0 =>
               /\ S.track[a].playback = track[a].playback
               /\ S.track[a].audioSource = track[a].audioSource
               /\ S.track[a].audio = track[a].audio
               /\ S.track[a].audioPaused = track[a].audioPaused
               /\ S.track[a].audioBuffer = track[a].audioBuffer
               /\ (S.track[a].bufferSourceNode = "started")
                    = (track[a].bufferSourceNode = "started")
               /\ S.track[a].volume = track[a].volume
               /\ S.track[a].fetching = track[a].fetching

\* the second of two tracks is current and was sought while the first one
\* holds a decoded buffer a seek could have reached
C39_Witness ==
    /\ trackActors = <<1, 2>> /\ currentTrackIdx = 1
    /\ track[2].currentTime = PreviousThreshold + 1
    /\ track[1].audioBuffer /\ track[1].currentTime = 0

\* ------------------------------------------------- sequential playback
\* play() on a freshly constructed queue (initial state `paused`), the only
\* command of the run
PlayOnce == value = "paused" /\ Play

\* the audio element of track a has played to the end of its media
AudioEndDue(a) ==
    /\ a <= spawned
    /\ track[a].audio /\ ~track[a].audioPaused
    /\ track[a].audioTime >= TrackDuration

\* the buffer source of track a has played its buffer to the end
BufferSourceEndDue(a) ==
    /\ a <= spawned
    /\ track[a].bufferSourceNode = "started"
    /\ clock - track[a].webAudioStartedPlayingAt >= TrackDuration

\* time passes while a track is producing audio that has not reached its
\* end; a medium at its end fires its end event before more time passes
TickPlaying ==
    /\ \E a \in 1..spawned :
         \/ track[a].audio /\ ~track[a].audioPaused
         \/ track[a].bufferSourceNode = "started"
    /\ \A a \in Actors : ~AudioEndDue(a) /\ ~BufferSourceEndDue(a)
    /\ Tick

NextLive ==
    \/ PlayOnce
    \/ TickPlaying
    \/ Ends
    \/ Loads

\* The browser keeps its clock running and delivers the end event of every
\* medium that has played to its end (weak fairness of the two end events,
\* written with their enabling conditions); loads may stay pending forever.
SpecLive ==
    /\ InitPlayback
    /\ [][NextLive]_vars
    /\ WF_vars(TickPlaying)
    /\ \A a \in Actors :
         <>[]AudioEndDue(a) => []<><<AudioEnded(a)>>_vars
    /\ \A a \in Actors :
         <>[]BufferSourceEndDue(a) => []<><<BufferSourceEnded(a)>>_vars

\* C40: after play() on track 0 of n initial tracks, with no further
\* command and every playing track signalling its natural end, the queue
\* eventually is `ended` on the last track with no track playing; until
\* then currentTrackIdx only grows in steps of one, at most one track is
\* playing, and a track enters `playing` only as the new current track, on
\* play() or on an advance, hence every track once and in order.
C40_SequentialPlayback ==
    /\ [][ /\ currentTrackIdx' \in {currentTrackIdx, currentTrackIdx + 1}
           /\ \A a \in Actors :
                (track'[a].playback = "playing"
                   /\ track[a].playback # "playing")
                => /\ a = trackActors'[currentTrackIdx' + 1]
                   /\ \/ value = "paused" /\ currentTrackIdx' = 0
                      \/ currentTrackIdx' = currentTrackIdx + 1 ]_vars
    /\ [](Cardinality(PlayingInQueue) <= 1)
    /\ (value = "playing")
         ~> ( /\ value = "ended"
              /\ currentTrackIdx = LastIdx
              /\ PlayingInQueue = {} )

\* three tracks have been played to the end of the queue
C40_Witness ==
    /\ Len(trackActors) = MaxActors
    /\ value = "ended"
    /\ currentTrackIdx = MaxActors - 1
    /\ clock = MaxActors * TrackDuration
    /\ \A a \in Actors : track[a].playback # "playing"

=============================================================================
